---- MODULE Spec2Model ----
(***************************************************************************)
(* spla-schedule: a group scheduling widget in three variants.             *)
(*   "shared" : src/src/App.tsx lines 1-457, rows live in a remote table   *)
(*              and reach each client through change notifications;        *)
(*   "local"  : src/src/App.tsx lines 459-814, one client, the collection  *)
(*              is React state mirrored into localStorage;                 *)
(*   "memory" : src/unnamed/part_000, one client, React state only.        *)
(* A behaviour runs one variant, chosen in Init.                           *)
(*                                                                         *)
(* Scheduling.  In the local variants every update of the collection comes *)
(* from a click handler (or the mount effect); React flushes the updates   *)
(* of one click before the next click is dispatched, so a handler's        *)
(* closure holds the committed collection and a handler together with the  *)
(* re-render and the save effect it causes is one action.  In the shared   *)
(* variant a handler only sends a request; the store applies requests one  *)
(* at a time in any order, answers them, and queues a notification for     *)
(* every subscribed client; a client's collection changes when its load    *)
(* completes or a notification is delivered.                               *)
(***************************************************************************)
EXTENDS Naturals, Integers, Sequences, FiniteSets, TLC

(* ------------------------------ bounds --------------------------------- *)
\* how many of the configured members the model keeps (a prefix of AllMembers)
NumMembers == 2
\* largest collection an add of a local variant may produce (a collection
\* loaded from localStorage may be longer)
MaxEvents == 1
\* user gestures (typing a title, picking a date, clicking add / a vote /
\* delete / export) in a shared-variant behaviour
MaxGestures == 2

(* --------------------------- program constants ------------------------- *)
AllMembers == <<"Teru", "Rino", "Shunya", "Yaan">>
members == SubSeq(AllMembers, 1, NumMembers)
Member == {members[i] : i \in 1..Len(members)}

voteCycle == <<"no", "if", "yes">>
Vote == {"no", "if", "yes"}

Clients == {"c1", "c2"}
Variants == {"shared", "local", "memory"}

AlertAdd == "add failed"
AlertUpdate == "update failed"
AlertDelete == "delete failed"
\* alert("確定した予定がありません")
AlertNoConfirmed == "no confirmed schedule"

\* a title is a sequence of characters
WhiteSpace == {" "}
TitleInputs == { <<>>, <<" ">>, <<" ", "a", " ">> }

\* instants are milliseconds since the epoch.  useState<Date>(new Date()): the
\* moment the page was opened, here 22:00:00.500 of day 0; the calendar hands
\* out midnights, here that of day 1
PageOpened == 22 * 60 * 60 * 1000 + 500
CalendarDays == { 24 * 60 * 60 * 1000 }

VARIABLES
  variant,     \* which of the three programs runs
  store,       \* shared: the rows of table "schedules", in created_at order
  nextId,      \* next identifier handed out (uuid of the store / Date.now())
  issued,      \* shared, per client: number of user gestures so far
  reqs,        \* shared: requests sent and not yet answered to their client
  phase,       \* per client: progress of the initial load / mount
  loadData,    \* per client: result of the initial select, in flight
  subscribed,  \* per client: realtime channel joined
  inbox,       \* per client: notifications queued on the channel
  schedules,   \* per client: React state `schedules`
  title,       \* per client: React state `title`
  date,        \* per client: React state `date`, an instant in milliseconds
  alerts,      \* per client: alert dialogs raised by the step just taken
  download,    \* per client: files offered for download by the step just taken
  storage      \* local: value under STORAGE_KEY in localStorage

vars == <<variant, store, nextId, issued, reqs, phase, loadData, subscribed,
          inbox, schedules, title, date, alerts, download, storage>>

(* ------------------------------ helpers -------------------------------- *)
Range(s) == {s[i] : i \in 1..Len(s)}

\* Array.prototype.indexOf, 0-based, -1 when absent
RECURSIVE IndexFrom(_, _, _)
IndexFrom(arr, x, i) ==
  IF i > Len(arr) THEN -1
  ELSE IF arr[i] = x THEN i - 1
  ELSE IndexFrom(arr, x, i + 1)
indexOf(arr, x) == IndexFrom(arr, x, 1)

\* voteCycle[(voteCycle.indexOf(v) + 1) % voteCycle.length]
NextVoteSkip(v) == voteCycle[((indexOf(voteCycle, v) + 2) % Len(voteCycle)) + 1]
NextVote(v) == voteCycle[((indexOf(voteCycle, v) + 1) % Len(voteCycle)) + 1]

\* String.prototype.trim
RECURSIVE TrimLeft(_)
TrimLeft(s) ==
  IF s # <<>> /\ Head(s) \in WhiteSpace THEN TrimLeft(Tail(s)) ELSE s
RECURSIVE TrimRight(_)
TrimRight(s) ==
  IF s # <<>> /\ s[Len(s)] \in WhiteSpace
  THEN TrimRight(SubSeq(s, 1, Len(s) - 1)) ELSE s
TrimNone(s) == s
Trim(s) == TrimRight(TrimLeft(s))

\* Object.fromEntries(members.map((m) => [m, "no"]))
EmptyVotesPartial == [m \in Member \ {members[1]} |-> "no"]
emptyVotes == [m \in Member |-> "no"]

\* { ...s.votes, [m]: next }
SpreadVotes(votes, m, next) ==
  [k \in (DOMAIN votes) \cup {m} |-> IF k = m THEN next ELSE votes[k]]

\* Date.prototype.toISOString: the fields of "YYYY-MM-DDTHH:mm:ss.sssZ" (the
\* calendar date is kept as a day number), and new Date(text) of such a text
ToISOString(t) ==
  [day |-> t \div (24 * 60 * 60 * 1000),
   hh  |-> (t \div (60 * 60 * 1000)) % 24,
   mm  |-> (t \div (60 * 1000)) % 60,
   ss  |-> (t \div 1000) % 60,
   sss |-> t % 1000]
DateParse(iso) ==
  (((iso.day * 24 + iso.hh) * 60 + iso.mm) * 60 + iso.ss) * 1000 + iso.sss

\* a row of table "schedules" (starts_at is a text) and an entry of the
\* local variants (date is a Date)
Row(id, starts_at, t, votes) ==
  [id |-> id, starts_at |-> starts_at, title |-> t, votes |-> votes]
Entry(id, d, t, votes) == [id |-> id, date |-> d, title |-> t, votes |-> votes]

Active == IF variant = "shared" THEN Clients ELSE {"c1"}

NoAlerts == [c \in Clients |-> <<>>]
NoDownloads == [c \in Clients |-> <<>>]

\* A text is JSON (kind "json", with the value it denotes) or not (kind
\* "text"); a JSON array is [type |-> "array", items |-> its elements], any
\* other JSON value here is the object {}.
\* JSON.stringify(schedules): a Date is written by its toISOString
Stringify(scheds) ==
  [kind |-> "json",
   value |-> [type |-> "array",
              items |-> [i \in 1..Len(scheds) |->
                           [scheds[i] EXCEPT !.date = ToISOString(@)]]]]
\* JSON.parse(raw), which throws on a text that is not JSON
ParseThrows(raw) == raw.kind # "json"
Parse(raw) == raw.value
\* localStorage.getItem(STORAGE_KEY) when nothing is stored
Null == [kind |-> "null"]
EmptyObject == [type |-> "object"]
InvalidDate == "Invalid Date"

\* parsed.map((s) => ({ ...s, date: new Date(s.date) })); it throws when parsed
\* is not an array
ReviveThrows(parsed) == parsed.type # "array"
Revive(parsed) ==
  [i \in 1..Len(parsed.items) |->
     LET s == parsed.items[i] IN
       IF "date" \in DOMAIN s
       THEN [s EXCEPT !.date = DateParse(@)]
       ELSE [k \in (DOMAIN s) \cup {"date"} |->
               IF k = "date" THEN InvalidDate ELSE s[k]]]

\* rendering reads s.votes[m] of every entry (submittedMap, the table rows)
\* and throws when an entry has no votes object
RenderThrows(scheds) == \E i \in 1..Len(scheds) : "votes" \notin DOMAIN scheds[i]

(* ------------------------------ initial state -------------------------- *)
\* Shared variant: client c1 opens the page now (its select is sent, its
\* channel not yet joined); client c2 opened it earlier and is loaded, joined
\* and up to date.  InitStores: what the table may hold at that moment.
InitStores ==
  { <<>>,
    << Row(1, ToISOString(PageOpened), <<"a">>, [m \in Member |-> "yes"]),
       Row(2, ToISOString(24 * 60 * 60 * 1000), <<"b">>,
           [m \in Member |-> IF m = members[1] THEN "if" ELSE "no"]) >> }

\* Local-storage variant: what an earlier session may have left under
\* STORAGE_KEY ...
InitEntries ==
  { <<>>,
    << Entry(1, PageOpened, <<"a">>, [m \in Member |-> "yes"]),
       Entry(2, 24 * 60 * 60 * 1000, <<"b">>,
             [m \in Member |-> IF m = members[1] THEN "if" ELSE "no"]) >> }
\* ... or what something else left there: a text that is not JSON, JSON that
\* is no array, an array of something that is no entry
Malformed ==
  { [kind |-> "text"],
    [kind |-> "json", value |-> EmptyObject],
    [kind |-> "json", value |-> [type |-> "array", items |-> <<EmptyObject>>]] }
InitStorages == {Null} \cup {Stringify(st) : st \in InitEntries} \cup Malformed

Init ==
  /\ variant \in Variants
  /\ store \in (IF variant = "shared" THEN InitStores ELSE {<<>>})
  /\ issued = [c \in Clients |-> 0]
  /\ reqs = {}
  /\ phase = [c \in Clients |->
                IF variant = "shared" THEN (IF c = "c1" THEN "loading" ELSE "ready")
                ELSE IF c # "c1" THEN "off"
                ELSE IF variant = "local" THEN "mounting" ELSE "ready"]
  /\ loadData = [c \in Clients |-> <<>>]
  /\ subscribed = [c \in Clients |-> variant = "shared" /\ c = "c2"]
  /\ inbox = [c \in Clients |-> <<>>]
  /\ schedules = [c \in Clients |->
                    IF variant = "shared" /\ c = "c2" THEN store ELSE <<>>]
  /\ title = [c \in Clients |-> <<>>]
  /\ date = [c \in Clients |-> PageOpened]
  /\ alerts = NoAlerts
  /\ download = NoDownloads
  /\ storage \in (IF variant = "local" THEN InitStorages ELSE {Null})
  /\ nextId = Len(store)
              + (IF storage \in {Stringify(st) : st \in InitEntries}
                 THEN Len(Parse(storage).items) ELSE 0) + 1

(* ------------------------- shared variant: store ----------------------- *)
HasRow(id) == \E i \in 1..Len(store) : store[i].id = id

\* the realtime feed: one message per change, to every joined channel
Notify(msg) ==
  inbox' = [c \in Clients |-> IF subscribed[c] THEN Append(inbox[c], msg) ELSE inbox[c]]

\* .select("*").order("created_at", { ascending: true }) reaches the table
LoadFetch(c) ==
  /\ variant = "shared" /\ phase[c] = "loading"
  /\ loadData' = [loadData EXCEPT ![c] = store]
  /\ phase' = [phase EXCEPT ![c] = "fetched"]
  /\ alerts' = NoAlerts
  /\ download' = NoDownloads
  /\ UNCHANGED <<variant, date, store, nextId, issued, reqs, subscribed, inbox,
                 schedules, title, storage>>

\* the select fails: setErr(error.message); return
LoadError(c) ==
  /\ variant = "shared" /\ phase[c] = "loading"
  /\ phase' = [phase EXCEPT ![c] = "error"]
  /\ alerts' = NoAlerts
  /\ download' = NoDownloads
  /\ UNCHANGED <<variant, date, store, nextId, issued, reqs, loadData, subscribed,
                 inbox, schedules, title, storage>>

\* setSchedules((data || []) as Schedule[]); setReady(true)
LoadComplete(c) ==
  /\ variant = "shared" /\ phase[c] = "fetched"
  /\ schedules' = [schedules EXCEPT ![c] = loadData[c]]
  /\ phase' = [phase EXCEPT ![c] = "ready"]
  /\ loadData' = [loadData EXCEPT ![c] = <<>>]
  /\ alerts' = NoAlerts
  /\ download' = NoDownloads
  /\ UNCHANGED <<variant, date, store, nextId, issued, reqs, subscribed, inbox,
                 title, storage>>

\* supabase.channel("realtime:schedules").on(...).subscribe() is joined
Subscribe(c) ==
  /\ variant = "shared" /\ ~subscribed[c]
  /\ subscribed' = [subscribed EXCEPT ![c] = TRUE]
  /\ alerts' = NoAlerts
  /\ download' = NoDownloads
  /\ UNCHANGED <<variant, date, store, nextId, issued, reqs, phase, loadData,
                 inbox, schedules, title, storage>>

RECURSIVE Sum(_, _)
Sum(f, S) == IF S = {} THEN 0
             ELSE LET x == CHOOSE y \in S : TRUE IN f[x] + Sum(f, S \ {x})

Gesture(c) ==
  IF variant = "shared"
  THEN /\ Sum(issued, Clients) < MaxGestures
       /\ issued' = [issued EXCEPT ![c] = @ + 1]
  ELSE issued' = issued

\* a request in flight is the suspended call of addSchedule / toggleVote /
\* removeSchedule: its arguments (s, m) and what it sent
Send(c, op, id, starts_at, t, votes, s, m) ==
  /\ reqs' = reqs \cup {[n |-> issued[c] + 1, c |-> c, op |-> op, id |-> id,
                         starts_at |-> starts_at, title |-> t, votes |-> votes,
                         s |-> s, m |-> m]}

\* the table applies .insert({ starts_at, title: t, votes: emptyVotes })
ApplyInsert(r) ==
  LET row == Row(nextId, r.starts_at, r.title, r.votes) IN
  /\ store' = Append(store, row)
  /\ nextId' = nextId + 1
  /\ Notify([eventType |-> "INSERT", row |-> row])

\* the table applies .update({ votes: nextVotes }).eq("id", s.id)
ApplyUpdate(r) ==
  /\ nextId' = nextId
  /\ IF HasRow(r.id)
     THEN LET i == CHOOSE j \in 1..Len(store) : store[j].id = r.id
              row == [store[i] EXCEPT !.votes = r.votes] IN
          /\ store' = [store EXCEPT ![i] = row]
          /\ Notify([eventType |-> "UPDATE", row |-> row])
     ELSE UNCHANGED <<store, inbox>>

\* the table applies .delete().eq("id", id)
ApplyDelete(r) ==
  /\ nextId' = nextId
  /\ IF HasRow(r.id)
     THEN /\ store' = SelectSeq(store, LAMBDA x : x.id # r.id)
          /\ Notify([eventType |-> "DELETE", row |-> [id |-> r.id]])
     ELSE UNCHANGED <<store, inbox>>

AlertFor(op) ==
  CASE op = "insert" -> AlertAdd
    [] op = "update" -> AlertUpdate
    [] op = "delete" -> AlertDelete

\* if (error) alert("...: " + error.message)
NoAlertOnError(r) == <<>>
OnError(r) == <<AlertFor(r.op)>>

\* The answer reaches the suspended handler in the step in which the table
\* gives it: what the handler does after its await touches only `title` and
\* the alert dialog.
\* No error: addSchedule does setTitle(""), the other two do nothing more.
StoreApply(r) ==
  /\ variant = "shared" /\ r \in reqs
  /\ CASE r.op = "insert" -> ApplyInsert(r)
       [] r.op = "update" -> ApplyUpdate(r)
       [] r.op = "delete" -> ApplyDelete(r)
  /\ reqs' = reqs \ {r}
  /\ title' = IF r.op = "insert" THEN [title EXCEPT ![r.c] = <<>>] ELSE title
  /\ alerts' = NoAlerts
  /\ download' = NoDownloads
  /\ UNCHANGED <<variant, date, issued, phase, loadData, subscribed, schedules, storage>>

\* The table rejects the request: { error } is returned and the handler alerts.
StoreReject(r) ==
  /\ variant = "shared" /\ r \in reqs
  /\ reqs' = reqs \ {r}
  /\ alerts' = [NoAlerts EXCEPT ![r.c] = OnError(r)]
  /\ download' = NoDownloads
  /\ UNCHANGED <<variant, date, store, nextId, issued, phase, loadData, subscribed,
                 inbox, schedules, title, storage>>

(* ------------------------ shared variant: client ----------------------- *)
\* onChange={(e) => setTitle(e.target.value)}
SetTitle(c, t) ==
  /\ c \in Active /\ title[c] # t
  /\ Gesture(c)
  /\ title' = [title EXCEPT ![c] = t]
  /\ alerts' = NoAlerts
  /\ download' = NoDownloads
  /\ UNCHANGED <<variant, date, store, nextId, reqs, phase, loadData,
                 subscribed, inbox, schedules, storage>>

\* <Calendar onChange={(v) => setDate(v as Date)} value={date} />
SetDate(c, d) ==
  /\ c \in Active /\ date[c] # d
  /\ Gesture(c)
  /\ date' = [date EXCEPT ![c] = d]
  /\ alerts' = NoAlerts
  /\ download' = NoDownloads
  /\ UNCHANGED <<variant, store, nextId, reqs, phase, loadData,
                 subscribed, inbox, schedules, title, storage>>

\* addSchedule up to its await
AddSchedule(c) ==
  /\ variant = "shared"
  /\ Gesture(c)
  /\ LET t == Trim(title[c])
         starts_at == ToISOString(date[c]) IN
       IF t = <<>>
       THEN UNCHANGED reqs
       ELSE Send(c, "insert", 0, starts_at, t, emptyVotes, <<>>, "")
  /\ alerts' = NoAlerts
  /\ download' = NoDownloads
  /\ UNCHANGED <<variant, date, store, nextId, phase, loadData, subscribed, inbox,
                 schedules, title, storage>>

\* toggleVote(s, m) up to its await; s is the entry the button was rendered from
ToggleVoteOptimistic(c, i, m) ==
  /\ variant = "shared" /\ i \in 1..Len(schedules[c])
  /\ Gesture(c)
  /\ LET s == schedules[c][i]
         next == NextVote(s.votes[m])
         nextVotes == SpreadVotes(s.votes, m, next) IN
       /\ Send(c, "update", s.id, <<>>, <<>>, nextVotes, s, m)
       /\ schedules' = [schedules EXCEPT ![c][i].votes = nextVotes]
  /\ alerts' = NoAlerts
  /\ download' = NoDownloads
  /\ UNCHANGED <<variant, date, store, nextId, phase, loadData, subscribed, inbox,
                 title, storage>>
ToggleVote(c, i, m) ==
  /\ variant = "shared" /\ i \in 1..Len(schedules[c])
  /\ Gesture(c)
  /\ LET s == schedules[c][i]
         next == NextVote(s.votes[m])
         nextVotes == SpreadVotes(s.votes, m, next) IN
       Send(c, "update", s.id, <<>>, <<>>, nextVotes, s, m)
  /\ alerts' = NoAlerts
  /\ download' = NoDownloads
  /\ UNCHANGED <<variant, date, store, nextId, phase, loadData, subscribed, inbox,
                 schedules, title, storage>>

\* removeSchedule(s.id) up to its await
RemoveSchedule(c, i) ==
  /\ variant = "shared" /\ i \in 1..Len(schedules[c])
  /\ Gesture(c)
  /\ Send(c, "delete", schedules[c][i].id, <<>>, <<>>, <<>>, <<>>, "")
  /\ alerts' = NoAlerts
  /\ download' = NoDownloads
  /\ UNCHANGED <<variant, date, store, nextId, phase, loadData, subscribed, inbox,
                 schedules, title, storage>>

\* the postgres_changes callback
OnInsert(prev, row) == Append(prev, row)
OnUpdate(prev, row) ==
  [i \in 1..Len(prev) |-> IF prev[i].id = row.id THEN row ELSE prev[i]]
OnDeleteOthers(prev, oldRow) == SelectSeq(prev, LAMBDA x : x.id = oldRow.id)
OnDelete(prev, oldRow) == SelectSeq(prev, LAMBDA x : x.id # oldRow.id)

Deliver(c) ==
  /\ variant = "shared" /\ inbox[c] # <<>>
  /\ LET payload == Head(inbox[c]) IN
       schedules' = [schedules EXCEPT ![c] =
          CASE payload.eventType = "INSERT" -> OnInsert(@, payload.row)
            [] payload.eventType = "UPDATE" -> OnUpdate(@, payload.row)
            [] payload.eventType = "DELETE" -> OnDelete(@, payload.row)]
  /\ inbox' = [inbox EXCEPT ![c] = Tail(@)]
  /\ alerts' = NoAlerts
  /\ download' = NoDownloads
  /\ UNCHANGED <<variant, date, store, nextId, issued, reqs, phase, loadData,
                 subscribed, title, storage>>

(* ------------------- local-storage and in-memory variants -------------- *)
\* The mount effects of the local-storage variant with the render that
\* follows.  The load effect reads the snapshot: nothing stored, a parse that
\* throws or a map that throws leave the collection as it is ([]); otherwise
\* setSchedules(revived).  The save effect then writes the current (empty)
\* collection.  The render of the revived collection either throws, and React
\* unmounts the page with the error uncaught, or commits, and the save effect
\* writes the collection again.
Loaded(raw) ==
  IF raw = Null THEN <<>>
  ELSE IF ParseThrows(raw) THEN <<>>
  ELSE IF ReviveThrows(Parse(raw)) THEN <<>>
  ELSE Revive(Parse(raw))

Mount ==
  /\ variant = "local" /\ phase["c1"] = "mounting"
  /\ IF RenderThrows(Loaded(storage))
     THEN /\ phase' = [phase EXCEPT !["c1"] = "crashed"]
          /\ schedules' = schedules
     ELSE /\ phase' = [phase EXCEPT !["c1"] = "ready"]
          /\ schedules' = [schedules EXCEPT !["c1"] = Loaded(storage)]
  /\ storage' = Stringify(schedules'["c1"])
  /\ alerts' = NoAlerts
  /\ download' = NoDownloads
  /\ UNCHANGED <<variant, date, store, nextId, issued, reqs, loadData, subscribed,
                 inbox, title>>

\* useEffect(() => localStorage.setItem(STORAGE_KEY, JSON.stringify(schedules)), [schedules])
Save == storage' = Stringify(schedules'["c1"])

\* addSchedule of the local-storage variant: setSchedules((prev) => [...prev, newSchedule])
\* with id: Date.now(), then setTitle(""), then the save effect
AppendSchedule(prev, newSchedule) == Append(prev, newSchedule)

AddLocal ==
  /\ variant = "local" /\ phase["c1"] = "ready"
  /\ LET t == Trim(title["c1"])
         newSchedule == Entry(nextId, date["c1"], t, emptyVotes) IN
       IF t = <<>>
       THEN UNCHANGED <<schedules, title, nextId>>
       ELSE /\ Len(schedules["c1"]) < MaxEvents
            /\ schedules' = [schedules EXCEPT !["c1"] = AppendSchedule(@, newSchedule)]
            /\ title' = [title EXCEPT !["c1"] = <<>>]
            /\ nextId' = nextId + 1
  /\ Save
  /\ alerts' = NoAlerts
  /\ download' = NoDownloads
  /\ UNCHANGED <<variant, date, store, issued, reqs, phase, loadData, subscribed, inbox>>

\* toggleVote(scheduleId, member) of the local-storage variant
Toggled(prev, scheduleId, member) ==
  [i \in 1..Len(prev) |->
     LET s == prev[i] IN
       IF s.id # scheduleId THEN s
       ELSE LET current == s.votes[member]
                next == NextVote(current) IN
            [s EXCEPT !.votes = SpreadVotes(s.votes, member, next)]]

ToggleLocal(i, m) ==
  /\ variant = "local" /\ phase["c1"] = "ready"
  /\ i \in 1..Len(schedules["c1"])
  /\ schedules' = [schedules EXCEPT !["c1"] = Toggled(@, schedules["c1"][i].id, m)]
  /\ Save
  /\ alerts' = NoAlerts
  /\ download' = NoDownloads
  /\ UNCHANGED <<variant, date, store, nextId, issued, reqs, phase, loadData,
                 subscribed, inbox, title>>

\* addSchedule of the in-memory variant: setSchedules([...schedules, newSchedule]);
\* `schedules` is the handler's closure, which holds the committed collection
AddMemory ==
  /\ variant = "memory"
  /\ LET t == Trim(title["c1"])
         newSchedule == Entry(nextId, date["c1"], t, emptyVotes) IN
       IF t = <<>>
       THEN UNCHANGED <<schedules, title, nextId>>
       ELSE /\ Len(schedules["c1"]) < MaxEvents
            /\ schedules' = [schedules EXCEPT !["c1"] =
                               schedules["c1"] \o <<newSchedule>>]
            /\ title' = [title EXCEPT !["c1"] = <<>>]
            /\ nextId' = nextId + 1
  /\ alerts' = NoAlerts
  /\ download' = NoDownloads
  /\ UNCHANGED <<variant, date, store, issued, reqs, phase, loadData, subscribed,
                 inbox, storage>>

\* toggleVote(scheduleId, member) of the in-memory variant
ToggleMemory(i, m) ==
  /\ variant = "memory"
  /\ i \in 1..Len(schedules["c1"])
  /\ LET scheduleId == schedules["c1"][i].id IN
       schedules' = [schedules EXCEPT !["c1"] =
          [j \in 1..Len(@) |->
             LET s == @[j] IN
               IF s.id # scheduleId THEN s
               ELSE LET current == s.votes[m]
                        next == NextVote(current) IN
                    [s EXCEPT !.votes = SpreadVotes(s.votes, m, next)]]]
  /\ alerts' = NoAlerts
  /\ download' = NoDownloads
  /\ UNCHANGED <<variant, date, store, nextId, issued, reqs, phase, loadData,
                 subscribed, inbox, title, storage>>

\* positions a click may address: the two initial rows and one per gesture
MaxIndex == 2 + MaxGestures

LocalNext ==
  \/ Mount
  \/ AddLocal
  \/ \E i \in 1..MaxIndex, m \in Member : ToggleLocal(i, m)
  \/ AddMemory
  \/ \E i \in 1..MaxIndex, m \in Member : ToggleMemory(i, m)

(* ------------------------------ derived views -------------------------- *)
\* submittedMap (the shared variant also guards against a missing votes object)
RECURSIVE SubmittedLoop(_, _, _)
SubmittedLoop(scheds, i, acc) ==
  IF i > Len(scheds) THEN acc
  ELSE SubmittedLoop(scheds, i + 1,
         [k \in Member |-> IF scheds[i].votes[k] # "no" THEN TRUE ELSE acc[k]])
submittedMapLast(scheds) ==
  [k \in Member |-> scheds # <<>> /\ scheds[Len(scheds)].votes[k] # "no"]
submittedMap(scheds) == SubmittedLoop(scheds, 1, [k \in Member |-> FALSE])

\* confirmed = schedules.filter((s) => members.every((m) => s.votes[m] === "yes"))
confirmedSome(scheds) ==
  SelectSeq(scheds, LAMBDA s : \E i \in 1..Len(members) : s.votes[members[i]] = "yes")
confirmedNewestFirst(scheds) ==
  LET kept == SelectSeq(scheds, LAMBDA s : \A i \in 1..Len(members) : s.votes[members[i]] = "yes")
  IN [k \in 1..Len(kept) |-> kept[Len(kept) + 1 - k]]
confirmed(scheds) ==
  SelectSeq(scheds, LAMBDA s : \A i \in 1..Len(members) : s.votes[members[i]] = "yes")

(* ------------------------------ .ics export ---------------------------- *)
\* d.toISOString().replace(/[-:]/g, "").split(".")[0] + "Z": the fields of the
\* ISO text up to the seconds, then the letter Z
Stamp(d) ==
  LET iso == ToISOString(d) IN
    [day |-> iso.day, hh |-> iso.hh, mm |-> iso.mm, ss |-> iso.ss, z |-> "Z"]

\* new Date(start.getTime() + 2 * 60 * 60 * 1000)
EndDateOneHour(start) == start + 60 * 60 * 1000
EndDate(start) == start + 2 * 60 * 60 * 1000

\* a text is the sequence of its lines; a line is a name and what follows it
Line(name, value) == [name |-> name, value |-> value]

\* the lines of one VEVENT, for entry s starting at instant start
VEvent(s, start) ==
  << Line("BEGIN", "VEVENT"),
     Line("SUMMARY", s.title),
     Line("DTSTART", Stamp(start)),
     Line("DTEND", Stamp(EndDate(start))),
     Line("END", "VEVENT") >>

\* confirmed.map(...).join("\n"); starts[i] is the start instant of conf[i]
RECURSIVE IcsEventsFrom(_, _, _)
IcsEventsFrom(conf, starts, i) ==
  IF i > Len(conf) THEN <<>>
  ELSE VEvent(conf[i], starts[i]) \o IcsEventsFrom(conf, starts, i + 1)
IcsEvents(conf, starts) == IcsEventsFrom(conf, starts, 1)

\* "BEGIN:VCALENDAR\nVERSION:2.0\n" + icsEvents + "\nEND:VCALENDAR"
IcsContent(conf, starts) ==
  << Line("BEGIN", "VCALENDAR"), Line("VERSION", "2.0") >>
    \o IcsEvents(conf, starts)
    \o << Line("END", "VCALENDAR") >>

\* the Blob handed to the <a download="splatoon-schedule.ics"> that is clicked
IcsFile(content) ==
  [name |-> "splatoon-schedule.ics", type |-> "text/calendar;charset=utf-8",
   content |-> content]

\* what exportICS does with the confirmed sequence: the alert it raises and
\* the files it offers
exportICSNoGuard(conf, starts) ==
  [alert |-> <<>>, files |-> <<IcsFile(IcsContent(conf, starts))>>]
exportICS(conf, starts) ==
  IF Len(conf) = 0
  THEN [alert |-> <<AlertNoConfirmed>>, files |-> <<>>]
  ELSE [alert |-> <<>>, files |-> <<IcsFile(IcsContent(conf, starts))>>]

\* exportICS of the shared variant: the start is new Date(s.starts_at)
ExportShared(c) ==
  /\ variant = "shared"
  /\ Gesture(c)
  /\ LET conf == confirmed(schedules[c])
         starts == [i \in 1..Len(conf) |-> DateParse(conf[i].starts_at)]
         out == exportICS(conf, starts) IN
       /\ alerts' = [NoAlerts EXCEPT ![c] = out.alert]
       /\ download' = [NoDownloads EXCEPT ![c] = out.files]
  /\ UNCHANGED <<variant, date, store, nextId, reqs, phase, loadData, subscribed,
                 inbox, schedules, title, storage>>

\* exportICS of the local-storage variant: the start is s.date
ExportLocal ==
  /\ variant = "local" /\ phase["c1"] = "ready"
  /\ LET conf == confirmed(schedules["c1"])
         starts == [i \in 1..Len(conf) |-> conf[i].date]
         out == exportICS(conf, starts) IN
       /\ alerts' = [NoAlerts EXCEPT !["c1"] = out.alert]
       /\ download' = [NoDownloads EXCEPT !["c1"] = out.files]
  /\ UNCHANGED <<variant, date, store, nextId, issued, reqs, phase, loadData,
                 subscribed, inbox, schedules, title, storage>>

\* the export button of the in-memory variant, which filters the collection
\* itself
ExportMemory ==
  /\ variant = "memory"
  /\ LET conf == SelectSeq(schedules["c1"],
                           LAMBDA s : \A i \in 1..Len(members) : s.votes[members[i]] = "yes")
         starts == [i \in 1..Len(conf) |-> conf[i].date]
         out == exportICS(conf, starts) IN
       /\ alerts' = [NoAlerts EXCEPT !["c1"] = out.alert]
       /\ download' = [NoDownloads EXCEPT !["c1"] = out.files]
  /\ UNCHANGED <<variant, date, store, nextId, issued, reqs, phase, loadData,
                 subscribed, inbox, schedules, title, storage>>


SharedNext ==
  \/ \E c \in Clients : LoadFetch(c)
  \/ \E c \in Clients : LoadError(c)
  \/ \E c \in Clients : LoadComplete(c)
  \/ \E c \in Clients : Subscribe(c)
  \/ \E c \in Clients : AddSchedule(c)
  \/ \E c \in Clients, i \in 1..MaxIndex, m \in Member : ToggleVote(c, i, m)
  \/ \E c \in Clients, i \in 1..MaxIndex : RemoveSchedule(c, i)
  \/ \E r \in reqs : StoreApply(r)
  \/ \E r \in reqs : StoreReject(r)
  \/ \E c \in Clients : Deliver(c)

Next ==
  \/ SharedNext
  \/ LocalNext
  \/ \E c \in Clients, t \in TitleInputs : SetTitle(c, t)
  \/ \E c \in Clients, d \in CalendarDays : SetDate(c, d)
  \/ \E c \in Clients : ExportShared(c)
  \/ ExportLocal
  \/ ExportMemory

Spec == Init /\ [][Next]_vars

(* ============================== properties ============================= *)
AllYes(votes) == \A m \in Member : votes[m] = "yes"
Ids(scheds) == {scheds[i].id : i \in 1..Len(scheds)}
RowOf(scheds, id) == scheds[CHOOSE i \in 1..Len(scheds) : scheds[i].id = id]
Advance(votes, m) == [votes EXCEPT ![m] = NextVote(votes[m])]
IsLocal == variant \in {"local", "memory"}

\* the step applies the update r to a row that exists
UpdateApplied(r) ==
  /\ variant = "shared" /\ r \in reqs /\ r.op = "update" /\ r \notin reqs'
  /\ alerts' = NoAlerts
  /\ r.id \in Ids(store)

(* C1: shared variant.  Two toggles of different members of one event, both  *)
(* sent from the same displayed copy: when the second is applied to the row  *)
(* that already holds the first, the row has both members advanced one step. *)
C1_TogglesCommute ==
  [][\A r \in reqs : \A m1 \in Member \ {r.m} :
        (/\ UpdateApplied(r)
         /\ issued[r.c] = 1
         /\ RowOf(store, r.id).votes = Advance(r.s.votes, m1))
        => RowOf(store', r.id).votes = Advance(Advance(r.s.votes, m1), r.m)]_vars

(* C2: shared variant.  Once no request is pending and every notification    *)
(* has been delivered, the collection of every client that is loaded and     *)
(* subscribed equals the rows of the table.                                  *)
Quiescent ==
  /\ variant = "shared"
  /\ reqs = {}
  /\ \A c \in Clients : inbox[c] = <<>>
C2_ViewsConverge ==
  Quiescent =>
    \A c \in Clients : (phase[c] = "ready" /\ subscribed[c]) => schedules[c] = store

(* C3: in every variant, every entry of every collection (a client's, the    *)
(* table's) has a votes mapping whose keys are exactly the members and whose *)
(* values are votes.                                                         *)
VotesTotal(scheds) ==
  \A i \in 1..Len(scheds) :
     /\ DOMAIN scheds[i].votes = Member
     /\ \A m \in Member : scheds[i].votes[m] \in Vote
C3_VotesKeySet ==
  /\ VotesTotal(store)
  /\ \A c \in Clients : VotesTotal(schedules[c])
\* an entry made by addSchedule whose votes were toggled afterwards
C3_Witness ==
  /\ variant = "memory"
  /\ \E i \in 1..Len(schedules["c1"]) : \E m \in Member :
        schedules["c1"][i].votes[m] # "no"

(* C4: the vote step used by toggleVote maps no to if, if to yes and yes to   *)
(* no: a vote changed by a local toggle, and the vote a shared toggle sends  *)
(* to the table, are one such step past the vote the handler read; from      *)
(* every vote held by an entry three steps return to it and one or two steps *)
(* do not.                                                                   *)
CycleStep(v) == CASE v = "no" -> "if" [] v = "if" -> "yes" [] v = "yes" -> "no"
C4_Closed ==
  \A c \in Clients : \A i \in 1..Len(schedules[c]) : \A m \in Member :
     LET v == schedules[c][i].votes[m] IN
       /\ NextVote(v) = CycleStep(v)
       /\ NextVote(NextVote(NextVote(v))) = v
       /\ NextVote(v) # v
       /\ NextVote(NextVote(v)) # v
C4_Step ==
  /\ (IsLocal /\ phase["c1"] = "ready"
        /\ Len(schedules'["c1"]) = Len(schedules["c1"]))
     => \A i \in 1..Len(schedules["c1"]) : \A m \in Member :
           schedules'["c1"][i].votes[m] # schedules["c1"][i].votes[m]
           => schedules'["c1"][i].votes[m] = CycleStep(schedules["c1"][i].votes[m])
  /\ \A r \in reqs' \ reqs :
        r.op = "update" => r.votes[r.m] = CycleStep(r.s.votes[r.m])
C4_VoteCycle == []C4_Closed /\ [][C4_Step]_vars
\* toggles have taken one vote one step and another two steps
C4_Witness ==
  /\ variant = "memory"
  /\ \E i \in 1..Len(schedules["c1"]) : \E m1, m2 \in Member :
        /\ schedules["c1"][i].votes[m1] = "if"
        /\ schedules["c1"][i].votes[m2] = "yes"

(* C5: in every variant an entry is in the confirmed sequence iff every      *)
(* member's vote on it is yes; a step that changes a vote of a confirmed     *)
(* entry removes it, and a step after which all its votes are yes puts it    *)
(* (back) in.                                                                *)
C5_Iff ==
  \A c \in Clients : \A i \in 1..Len(schedules[c]) :
     (schedules[c][i] \in Range(confirmed(schedules[c])))
        <=> (\A m \in Member : schedules[c][i].votes[m] = "yes")
C5_Step ==
  \A c \in Clients : \A i \in 1..Len(schedules[c]) :
     (/\ Len(schedules'[c]) = Len(schedules[c])
      /\ schedules'[c][i].id = schedules[c][i].id
      /\ schedules'[c][i].votes # schedules[c][i].votes)
     => /\ schedules[c][i].id \in Ids(confirmed(schedules[c]))
           => schedules'[c][i] \notin Range(confirmed(schedules'[c]))
        /\ (\A m \in Member : schedules'[c][i].votes[m] = "yes")
           => schedules'[c][i] \in Range(confirmed(schedules'[c]))
C5_ConfirmedIffAllYes == []C5_Iff /\ [][C5_Step]_vars
\* toggles have taken the entry that was confirmed out of the confirmed
\* sequence and put the other one in
C5_Witness ==
  /\ variant = "local"
  /\ Len(schedules["c1"]) = 2
  /\ Ids(confirmed(schedules["c1"])) = {schedules["c1"][2].id}

(* C6: in every variant a member's responded flag is true iff some entry of  *)
(* the collection has a vote other than no for that member (so it is false   *)
(* for everyone when the collection is empty).                               *)
C6_RespondedFlag ==
  \A c \in Clients : \A m \in Member :
     submittedMap(schedules[c])[m]
        <=> (\E i \in 1..Len(schedules[c]) : schedules[c][i].votes[m] # "no")
\* the flag is carried by an earlier entry while the last entry says no, and
\* another member has only no votes
C6_Witness ==
  /\ variant = "local"
  /\ Len(schedules["c1"]) = 2
  /\ \E m1, m2 \in Member :
        /\ schedules["c1"][1].votes[m1] # "no"
        /\ schedules["c1"][2].votes[m1] = "no"
        /\ submittedMap(schedules["c1"])[m1]
        /\ ~submittedMap(schedules["c1"])[m2]

(* C7: an add whose title is empty or only white space adds no entry and     *)
(* sends no insert; an add whose title is not adds exactly one entry, last   *)
(* in the collection, with the title stripped of its outer white space and   *)
(* every member's vote no.                                                   *)
Stripped(t, raw) ==
  /\ t # <<>> /\ t[1] \notin WhiteSpace /\ t[Len(t)] \notin WhiteSpace
  /\ \E i \in 0..Len(raw) :
        /\ i + Len(t) <= Len(raw)
        /\ SubSeq(raw, i + 1, i + Len(t)) = t
        /\ \A k \in (1..i) \cup ((i + Len(t) + 1)..Len(raw)) : raw[k] \in WhiteSpace
Blank(raw) == \A k \in 1..Len(raw) : raw[k] \in WhiteSpace
AllNo(votes) == DOMAIN votes = Member /\ \A m \in Member : votes[m] = "no"
Inserts(rs) == {r \in rs : r.op = "insert"}
C7_Titled(scheds) ==
  \A i \in 1..Len(scheds) : Stripped(scheds[i].title, scheds[i].title)
C7_Inv ==
  /\ C7_Titled(store)
  /\ \A c \in Clients : C7_Titled(schedules[c])
C7_Step ==
  /\ \* local variants: the collection grows only by one new last entry
     (IsLocal /\ phase["c1"] = "ready" /\ schedules'["c1"] # schedules["c1"]
        /\ Len(schedules'["c1"]) # Len(schedules["c1"]))
     => /\ ~Blank(title["c1"])
        /\ Len(schedules'["c1"]) = Len(schedules["c1"]) + 1
        /\ SubSeq(schedules'["c1"], 1, Len(schedules["c1"])) = schedules["c1"]
        /\ LET new == schedules'["c1"][Len(schedules'["c1"])] IN
             /\ Stripped(new.title, title["c1"])
             /\ AllNo(new.votes)
             /\ new.id \notin Ids(schedules["c1"])
  /\ \* local variants: a valid add (it takes an id) does add
     (IsLocal /\ nextId' # nextId)
     => Len(schedules'["c1"]) = Len(schedules["c1"]) + 1
  /\ \* shared variant: an insert is sent only for a title that is not blank
     \A r \in Inserts(reqs') \ Inserts(reqs) :
        /\ ~Blank(title[r.c])
        /\ Stripped(r.title, title[r.c])
        /\ AllNo(r.votes)
        /\ Cardinality(Inserts(reqs') \ Inserts(reqs)) = 1
  /\ \* shared variant: the table grows only by the row of one insert
     (variant = "shared" /\ Len(store') > Len(store))
     => \E r \in Inserts(reqs) :
          /\ reqs' = reqs \ {r}
          /\ Len(store') = Len(store) + 1
          /\ SubSeq(store', 1, Len(store)) = store
          /\ LET new == store'[Len(store')] IN
               /\ new.title = r.title /\ AllNo(new.votes)
               /\ new.id \notin Ids(store)
C7_AddSchedule == []C7_Inv /\ [][C7_Step]_vars
\* the typed title had outer white space; the entry carries it stripped
C7_Witness ==
  /\ variant = "memory"
  /\ Len(schedules["c1"]) = 1
  /\ schedules["c1"][1].title = <<"a">>
  /\ AllNo(schedules["c1"][1].votes)
  /\ title["c1"] = <<>>

(* C8: shared variant.  Deleting removes exactly the entries with that id,   *)
(* from the table when the delete is applied and from a client's collection  *)
(* when the DELETE notification is delivered; every other entry stays, in    *)
(* the same order and unchanged.                                             *)
RECURSIVE Without(_, _)
Without(scheds, id) ==
  IF scheds = <<>> THEN <<>>
  ELSE IF Head(scheds).id = id THEN Without(Tail(scheds), id)
  ELSE <<Head(scheds)>> \o Without(Tail(scheds), id)
C8_Step ==
  /\ \A c \in Clients :
       (/\ variant = "shared" /\ inbox[c] # <<>>
        /\ Head(inbox[c]).eventType = "DELETE"
        /\ inbox'[c] = Tail(inbox[c]))
       => /\ schedules'[c] = Without(schedules[c], Head(inbox[c]).row.id)
          /\ \A d \in Clients \ {c} : schedules'[d] = schedules[d]
  /\ \A r \in reqs :
       (/\ variant = "shared" /\ r.op = "delete" /\ r \notin reqs'
        /\ alerts' = NoAlerts)
       => store' = Without(store, r.id)
C8_DeleteFrame == [][C8_Step]_vars
\* one of the two initial rows was deleted and c2, which showed both, has
\* received the notification and shows the other one
C8_Witness ==
  /\ variant = "shared"
  /\ nextId = 3 /\ Len(store) = 1
  /\ inbox["c2"] = <<>>
  /\ schedules["c2"] = store

(* C9: a toggle of (e, m) changes m's vote in e and nothing else: in the     *)
(* local variants relative to the collection before it, in the shared        *)
(* variant relative to the table just before the update is applied.          *)
OnlyVoteChanged(before, after, i, m) ==
  /\ Len(after) = Len(before)
  /\ \A j \in 1..Len(before) :
       /\ after[j].id = before[j].id
       /\ after[j].title = before[j].title
       /\ [after[j] EXCEPT !.votes = before[j].votes] = before[j]
       /\ \A k \in Member : (j # i \/ k # m) => after[j].votes[k] = before[j].votes[k]
C9_LocalStep ==
  (IsLocal /\ phase["c1"] = "ready" /\ schedules'["c1"] # schedules["c1"]
     /\ Len(schedules'["c1"]) = Len(schedules["c1"]))
  => \E i \in 1..Len(schedules["c1"]) : \E m \in Member :
        /\ OnlyVoteChanged(schedules["c1"], schedules'["c1"], i, m)
        /\ schedules'["c1"][i].votes[m] # schedules["c1"][i].votes[m]
C9_SharedStep ==
  \A r \in reqs :
     UpdateApplied(r)
     => \E i \in 1..Len(store) :
          store[i].id = r.id /\ OnlyVoteChanged(store, store', i, r.m)
C9_ToggleFrame == [][C9_LocalStep /\ C9_SharedStep]_vars
\* the part of C9 that concerns the local variants
C9_LocalToggleFrame == [][C9_LocalStep]_vars

(* C10: shared variant.  When the table rejects a request, the client that   *)
(* sent it gets exactly one alert, naming the operation that failed, nobody  *)
(* else gets one, and no client's collection changes.                        *)
C10_Step ==
  \A r \in reqs :
     StoreReject(r)
     => /\ alerts'[r.c] = << CASE r.op = "insert" -> AlertAdd
                               [] r.op = "update" -> AlertUpdate
                               [] r.op = "delete" -> AlertDelete >>
        /\ \A d \in Clients \ {r.c} : alerts'[d] = <<>>
        /\ schedules' = schedules
        /\ store' = store
C10_RejectAlerts == [][C10_Step]_vars
\* the alert of a rejected update is showing
C10_Witness ==
  /\ variant = "shared"
  /\ \E c \in Clients : alerts[c] = <<AlertUpdate>>

(* C11: shared variant.  A client's collection changes only in the step in   *)
(* which its initial load completes or a notification is delivered to it;    *)
(* a step in which a user acts (addSchedule, toggleVote, removeSchedule,     *)
(* typing, picking a date, exporting) or a request is sent leaves every      *)
(* client's collection as it was.                                            *)
LoadCompletes(c) == phase[c] = "fetched" /\ phase'[c] = "ready"
Delivered(c) == inbox[c] # <<>> /\ inbox'[c] = Tail(inbox[c])
C11_Step ==
  variant = "shared" =>
    /\ \A c \in Clients :
          schedules'[c] # schedules[c] => (LoadCompletes(c) \/ Delivered(c))
    /\ (issued' # issued \/ reqs' \ reqs # {}) => schedules' = schedules
C11_NoLocalMutation == [][C11_Step]_vars
\* a client's toggle has been applied by the table and the client still shows
\* the old votes, the UPDATE notification being next in its channel
C11_Witness ==
  /\ variant = "shared"
  /\ \E c \in Clients :
        /\ issued[c] > 0
        /\ inbox[c] # <<>>
        /\ Head(inbox[c]).eventType = "UPDATE"
        /\ Head(inbox[c]).row.id \in Ids(schedules[c])
        /\ RowOf(schedules[c], Head(inbox[c]).row.id).votes # Head(inbox[c]).row.votes

(* C12: in every variant, an export while the confirmed sequence is empty    *)
(* offers no file, raises exactly one notice (to the client that exported,   *)
(* none to another) and changes nothing of the state; the notice is raised   *)
(* by no other step.                                                         *)
Exports(c) == ExportShared(c) \/ (c = "c1" /\ (ExportLocal \/ ExportMemory))
C12_Step ==
  \A c \in Clients :
     /\ (Exports(c) /\ confirmed(schedules[c]) = <<>>)
        => /\ alerts'[c] = <<AlertNoConfirmed>>
           /\ \A d \in Clients \ {c} : alerts'[d] = <<>>
           /\ download' = NoDownloads
           /\ schedules' = schedules /\ store' = store /\ storage' = storage
           /\ title' = title /\ date' = date /\ reqs' = reqs /\ inbox' = inbox
     /\ (\E k \in 1..Len(alerts'[c]) : alerts'[c][k] = AlertNoConfirmed)
        => (Exports(c) /\ confirmed(schedules[c]) = <<>>)
C12_ExportEmpty == [][C12_Step]_vars
\* the notice is showing although the collection has an entry
C12_Witness ==
  /\ variant = "memory"
  /\ Len(schedules["c1"]) = 1
  /\ alerts["c1"] = <<AlertNoConfirmed>>
  /\ download["c1"] = <<>>

(* C13: in every variant, an export while the confirmed sequence has n > 0   *)
(* entries offers exactly one file and raises no notice.  The file is one    *)
(* VCALENDAR container with its version line, holding exactly n VEVENT       *)
(* records, the k-th being that of the k-th confirmed entry: its title, its  *)
(* start as a stamp to the second with a Z, and an end stamp that denotes    *)
(* the instant 7,200,000 ms after the start (to the second, as stamps are).  *)
StartOf(s) == IF "date" \in DOMAIN s THEN s.date ELSE DateParse(s.starts_at)
StampInstant(st) == (((st.day * 24 + st.hh) * 60 + st.mm) * 60 + st.ss) * 1000
ToSecond(t) == t - (t % 1000)
IsLine(l, name, value) == l.name = name /\ l.value = value
C13_Record(text, k, s) ==
  LET base == 2 + 5 * (k - 1) IN
    /\ IsLine(text[base + 1], "BEGIN", "VEVENT")
    /\ IsLine(text[base + 2], "SUMMARY", s.title)
    /\ text[base + 3].name = "DTSTART"
    /\ text[base + 3].value.z = "Z"
    /\ StampInstant(text[base + 3].value) = ToSecond(StartOf(s))
    /\ text[base + 4].name = "DTEND"
    /\ text[base + 4].value.z = "Z"
    /\ StampInstant(text[base + 4].value) = ToSecond(StartOf(s) + 7200000)
    /\ StampInstant(text[base + 4].value) = StampInstant(text[base + 3].value) + 7200000
    /\ text[base + 4].value.hh < 24 /\ text[base + 4].value.mm < 60
    /\ text[base + 4].value.ss < 60
    /\ IsLine(text[base + 5], "END", "VEVENT")
C13_File(file, conf) ==
  LET text == file.content
      n == Len(conf) IN
    /\ Len(text) = 5 * n + 3
    /\ IsLine(text[1], "BEGIN", "VCALENDAR")
    /\ IsLine(text[2], "VERSION", "2.0")
    /\ IsLine(text[Len(text)], "END", "VCALENDAR")
    /\ \A k \in 1..n : C13_Record(text, k, conf[k])
C13_Step ==
  \A c \in Clients :
     (Exports(c) /\ confirmed(schedules[c]) # <<>>)
     => /\ alerts' = NoAlerts
        /\ Len(download'[c]) = 1
        /\ \A d \in Clients \ {c} : download'[d] = <<>>
        /\ C13_File(download'[c][1], confirmed(schedules[c]))
C13_ExportRecords == [][C13_Step]_vars
\* a file with two records was offered, the first of an entry whose end falls
\* on the day after its start
C13_Witness ==
  /\ variant = "local"
  /\ Len(confirmed(schedules["c1"])) = 2
  /\ Len(download["c1"]) = 1
  /\ Len(download["c1"][1].content) = 13
  /\ download["c1"][1].content[6].value.day = download["c1"][1].content[5].value.day + 1

(* C14: in every variant and state the confirmed sequence is the collection  *)
(* with the entries that are not all-yes left out: it has one place per      *)
(* all-yes place of the collection and its p-th entry is the entry at the    *)
(* p-th such place, so two confirmed entries stand in the order they have in *)
(* the collection and none occurs more often than there.                     *)
YesPlaces(coll) == {i \in 1..Len(coll) : AllYes(coll[i].votes)}
KthPlace(coll, p) ==
  CHOOSE i \in YesPlaces(coll) : Cardinality({j \in YesPlaces(coll) : j < i}) = p - 1
C14_Filter(coll, conf) ==
  /\ Len(conf) = Cardinality(YesPlaces(coll))
  /\ \A p \in 1..Len(conf) : conf[p] = coll[KthPlace(coll, p)]
  /\ \A p, q \in 1..Len(conf) : \A i, j \in 1..Len(coll) :
        (p < q /\ coll[i] = conf[p] /\ coll[j] = conf[q] /\ conf[p] # conf[q]
           /\ Cardinality({k \in 1..Len(coll) : coll[k] \in {conf[p], conf[q]}}) = 2)
        => i < j
C14_ConfirmedInOrder ==
  \A c \in Clients : C14_Filter(schedules[c], confirmed(schedules[c]))
\* two different entries are confirmed, the second by toggles
C14_Witness ==
  /\ variant = "local"
  /\ Len(confirmed(schedules["c1"])) = 2
  /\ confirmed(schedules["c1"])[1].id # confirmed(schedules["c1"])[2].id

(* C15: local-storage variant.  When the stored snapshot is malformed (no    *)
(* JSON, JSON that is no array, an array of something that is no entry) the  *)
(* mount leaves the collection empty and the page running: no error is       *)
(* raised.                                                                   *)
C15_Step ==
  (/\ variant = "local" /\ phase["c1"] = "mounting" /\ phase'["c1"] # "mounting"
   /\ storage \in Malformed)
  => /\ schedules'["c1"] = <<>>
     /\ phase'["c1"] = "ready"
     /\ alerts' = NoAlerts
C15_MalformedDiscarded == [][C15_Step]_vars
\* the part of C15 about snapshots on which JSON.parse or parsed.map throws
C15_ThrowingDiscarded ==
  [][(storage # Null /\ (ParseThrows(storage) \/ ReviveThrows(Parse(storage))))
       => C15_Step]_vars

(* C16: shared variant.  In every state no two entries of a client's         *)
(* collection have the same id.                                              *)
C16_UniqueIds ==
  variant = "shared" =>
    \A c \in Clients : \A i, j \in 1..Len(schedules[c]) :
       i # j => schedules[c][i].id # schedules[c][j].id

(* C17: a toggle that succeeds leaves the stored vote of its (entry, member) *)
(* one cycle step past the vote that was stored just before: in the shared   *)
(* variant when the table applies the update, in the local variants when the *)
(* collection is updated.                                                    *)
C17_SharedStep ==
  \A r \in reqs :
     UpdateApplied(r)
     => RowOf(store', r.id).votes[r.m] = CycleStep(RowOf(store, r.id).votes[r.m])
C17_LocalStep ==
  (IsLocal /\ phase["c1"] = "ready" /\ schedules'["c1"] # schedules["c1"]
     /\ Len(schedules'["c1"]) = Len(schedules["c1"]))
  => \E i \in 1..Len(schedules["c1"]) : \E m \in Member :
        schedules'["c1"][i].votes[m] = CycleStep(schedules["c1"][i].votes[m])
C17_TogglesAdvance == [][C17_SharedStep /\ C17_LocalStep]_vars
\* the part of C17 that concerns the local variants
C17_LocalTogglesAdvance == [][C17_LocalStep]_vars

====
